---- MODULE Spec2Model ----
(***************************************************************************)
(* Model of the farmer-backend weather forecasting service:                *)
(*   modules/multi_location_predictor.py  registry, resolution, forecast   *)
(*                                         orchestration, summary, alerts  *)
(*   models/lstm_model.py                  model load cascade, inference   *)
(*   modules/weather_data.py               historical data provider        *)
(*   main.py                               HTTP handlers, cache, startup   *)
(*                                                                         *)
(* Strings are sequences of one-character strings.  Rainfall is in tenths  *)
(* of a millimetre and temperature in tenths of a degree, so 0.5 mm is 5   *)
(* and 40 C is 400; NaN is a separate value that every comparison rejects. *)
(***************************************************************************)
EXTENDS Integers, Sequences, FiniteSets, TLC

VARIABLES
    modelDir,             \* models/locations: the lstm_*.h5 files in glob order
    predictor,            \* main.predictor: None or the registry (self.models)
    csv,                  \* data/bangalore_rural_weather.csv as it is on disk now
    cached_weather_data,  \* main.cached_weather_data
    today,                \* datetime.now().date(), in days
    config,               \* the environment settings read when main is imported
    phase,                \* "boot" until startup_event has run, then "serving"
    pool,                 \* predictions dispatched to the thread pool, not yet resumed
    cache_refresh_task,   \* main._cache_refresh_task: the periodic refresher
    response,             \* the last HTTP response sent
    call,                 \* the last direct call of a registry method and its outcome
    predictions_df,       \* the forecast series handed to the statistics engine
    summary,              \* result of get_summary_stats
    alerts,               \* result of get_alert_suggestions
    farmers,              \* the rows of the farmers table, in insertion order
    password_set          \* for each phone number, the password last given for it

vars == <<modelDir, predictor, csv, cached_weather_data, today, config, phase, pool,
          cache_refresh_task, response, call, predictions_df, summary, alerts,
          farmers, password_set>>

serverVars == <<csv, cached_weather_data, today, config, phase, pool,
                cache_refresh_task, response>>
statsVars == <<predictions_df, summary, alerts>>
authVars == <<farmers, password_set>>

\* Python's None, as a record so that it compares with the records it stands in for
None == [none |-> TRUE]
\* pandas NaT: the latest date of a frame without rows
NaT == -2
\* the value of a slug, an error message, a date or a row count that was never set
NoSlug == <<>>
NoError == ""
NoDate == NaT
NoRows == NaT

\* ------------------------------------------------------------------ bounds

\* most lstm_*.h5 files in the model directory
MaxFiles == 2
\* last day the clock reaches
MaxDay == 2
\* most forecast requests waiting for the thread pool at once
MaxInflight == 1
\* longest location string over the slug alphabet that a caller sends
MaxLocLen == 3

\* ------------------------------------------------------------------ strings

SlugAlphabet == {"a", "b", "_"}

RECURSIVE SeqsUpTo(_, _)
SeqsUpTo(A, n) ==
    IF n = 0 THEN {<<>>}
    ELSE LET shorter == SeqsUpTo(A, n - 1)
         IN  shorter \cup {Append(s, c) : s \in {t \in shorter : Len(t) = n - 1}, c \in A}

\* location strings with upper case, blanks, hyphens and commas, as display
\* names carry them ("Kasaba, Doddaballapura")
DisplayStrings ==
    { <<"A">>, <<"A", " ", "b">>, <<"a", "-", "b">>, <<"A", ",", " ", "b">>,
      <<"a", ",", "b">>, <<"B", "_", "A">>, <<",">>, <<"A", "_", "B", " ">> }

LocationStrings == SeqsUpTo(SlugAlphabet, MaxLocLen) \cup DisplayStrings

\* str.lower() on one character
LowerChar(c) == IF c = "A" THEN "a" ELSE IF c = "B" THEN "b" ELSE c

\* str.replace(old, new) for one-character old and new
ReplaceChar(s, old, new) == [i \in 1..Len(s) |-> IF s[i] = old THEN new ELSE s[i]]

\* location_name.lower().replace(" ", "_").replace("-", "_")
NormalizeLocation(location_name) ==
    LET lowered == [i \in 1..Len(location_name) |-> LowerChar(location_name[i])]
    IN  ReplaceChar(ReplaceChar(lowered, " ", "_"), "-", "_")

\* Python: s in t, for strings
IsSubstring(s, t) ==
    \E i \in 0..(Len(t) - Len(s)) : SubSeq(t, i + 1, i + Len(s)) = s

\* LOCATION_SLUG_MAPPING: "<hobli>, <taluk>" in lower case to the slug of
\* the model files, "<hobli>_<taluk>"
LOCATION_SLUG_MAPPING ==
    [name \in {<<"a", ",", " ", "b">>} |-> <<"a", "_", "b">>]

\* ------------------------------------------------------- model directory

\* What an lstm_<slug>.h5 file is to the loaders:
\*   "hdf5"    h5py opens it and its weight groups are read
\*   "keras"   the direct weight extraction fails, keras load_model reads it
\*   "corrupt" neither h5py nor keras can read it
\*   "missing" the file was listed by glob and is gone when load() looks for it
ModelKinds == {"hdf5", "keras", "corrupt", "missing"}
\* What scaler_<slug>.pkl is: loadable, absent, or present but not loadable
ScalerKinds == {"ok", "missing", "corrupt"}

FileSlugs == { <<"a">>, <<"a", "_", "b">>, <<"b">> }

\* a file that is gone is never read: its scaler plays no part
Artifacts ==
    [slug : FileSlugs, model : ModelKinds \ {"missing"}, scaler : ScalerKinds]
        \cup [slug : FileSlugs, model : {"missing"}, scaler : {"ok"}]

ModelDirs ==
    { d \in UNION {[1..k -> Artifacts] : k \in 0..MaxFiles} :
        \A i, j \in 1..Len(d) : i # j => d[i].slug # d[j].slug }

\* ------------------------------------------------- WeatherLSTMModel.load_model

\* Strategy 1: rebuild the architecture and read the weights with h5py
ExtractWeightsOk(kind) == kind = "hdf5"
\* Strategy 2: rebuild the architecture and copy the weights of load_model(path)
TransferWeightsOk(kind) == kind \in {"hdf5", "keras"}
\* Strategy 3: compile the freshly built architecture; the file is not read
CompileFreshOk(kind) == TRUE

\* [ok, weights]: ok = FALSE stands for the FileNotFoundError it raises
load_model(kind) ==
    IF ExtractWeightsOk(kind) THEN [ok |-> TRUE, weights |-> "extracted"]
    ELSE IF TransferWeightsOk(kind) THEN [ok |-> TRUE, weights |-> "transferred"]
    ELSE IF CompileFreshOk(kind) THEN [ok |-> TRUE, weights |-> "untrained"]
    ELSE [ok |-> FALSE, weights |-> "none"]

\* tf.keras.models.load_model(path, compile=False), with or without custom_objects
KerasLoadOk(kind) == kind \in {"hdf5", "keras"}

\* ----------------------------------------------------------- LocationModel.load

\* [is_loaded, weights, fitted]: the value load() returns and the fields it leaves
LocationModelLoad(artifact) ==
    LET standard == load_model(artifact.model)
        modelOk  == standard.ok \/ KerasLoadOk(artifact.model)
        weights  == IF standard.ok THEN standard.weights ELSE "transferred"
    IN  IF artifact.model = "missing"
        THEN [is_loaded |-> FALSE, weights |-> "none", fitted |-> FALSE]
        ELSE IF ~modelOk THEN [is_loaded |-> FALSE, weights |-> "none", fitted |-> FALSE]
        ELSE IF artifact.scaler = "corrupt"
             THEN [is_loaded |-> FALSE, weights |-> weights, fitted |-> FALSE]
        ELSE [is_loaded |-> TRUE, weights |-> weights,
              fitted |-> (artifact.scaler = "ok")]

\* The loaders LocationModel.load runs for a file that exists, in the order
\* it runs them, each with its outcome. It calls WeatherLSTMModel.load_model
\* first ("standard load"), whose own three strategies come first; only if
\* that raises it calls keras load_model without compiling, and then with
\* custom_objects.
LoadAttempts(artifact) ==
    LET kind   == artifact.model
        inner1 == <<[strategy |-> "extract_weights", ok |-> ExtractWeightsOk(kind)]>>
        inner2 == IF ExtractWeightsOk(kind) THEN <<>>
                  ELSE <<[strategy |-> "transfer_weights", ok |-> TransferWeightsOk(kind)]>>
        inner3 == IF ExtractWeightsOk(kind) \/ TransferWeightsOk(kind) THEN <<>>
                  ELSE <<[strategy |-> "compile_fresh", ok |-> CompileFreshOk(kind)]>>
        outer  == IF load_model(kind).ok THEN <<>>
                  ELSE <<[strategy |-> "keras_no_compile", ok |-> KerasLoadOk(kind)]>>
                       \o (IF KerasLoadOk(kind) THEN <<>>
                           ELSE <<[strategy |-> "keras_custom_objects",
                                   ok |-> KerasLoadOk(kind)]>>)
    IN  IF kind = "missing" THEN <<>> ELSE inner1 \o inner2 \o inner3 \o outer

\* ------------------------------------------- MultiLocationPredictor._load_all_models

RECURSIVE LoadAllModels(_)
LoadAllModels(dir) ==
    IF dir = <<>> THEN <<>>
    ELSE LET loaded == LocationModelLoad(Head(dir))
             rest   == LoadAllModels(Tail(dir))
         IN  IF loaded.is_loaded
             THEN <<[slug |-> Head(dir).slug, weights |-> loaded.weights,
                     fitted |-> loaded.fitted]>> \o rest
             ELSE rest

\* the keys of self.models
Slugs(models) == {models[i].slug : i \in 1..Len(models)}

\* MultiLocationPredictor.__init__: the object, with the registry in .models
MultiLocationPredictor(dir) == [models |-> LoadAllModels(dir)]

\* ------------------------------------- MultiLocationPredictor._get_location_slug

\* _get_location_slug without the fallback to the first available model
GetLocationSlugNoFallback(models, location_name) ==
    LET slug    == NormalizeLocation(location_name)
        partial == {i \in 1..Len(models) :
                      IsSubstring(slug, models[i].slug) \/ IsSubstring(models[i].slug, slug)}
    IN  IF slug \in Slugs(models) THEN [raised |-> FALSE, slug |-> slug]
        ELSE IF partial # {}
             THEN [raised |-> FALSE,
                   slug |-> models[CHOOSE i \in partial : \A j \in partial : i <= j].slug]
        ELSE [raised |-> TRUE, slug |-> NoSlug]

\* _get_location_slug with the partial match tried before the exact one
GetLocationSlugPartialFirst(models, location_name) ==
    LET slug    == NormalizeLocation(location_name)
        partial == {i \in 1..Len(models) :
                      IsSubstring(slug, models[i].slug) \/ IsSubstring(models[i].slug, slug)}
    IN  IF partial # {}
        THEN [raised |-> FALSE,
              slug |-> models[CHOOSE i \in partial : \A j \in partial : i <= j].slug]
        ELSE IF Len(models) > 0 THEN [raised |-> FALSE, slug |-> models[1].slug]
        ELSE [raised |-> TRUE, slug |-> NoSlug]

\* [raised, slug]: raised stands for ValueError("No models available ...")
GetLocationSlug(models, location_name) ==
    LET slug    == NormalizeLocation(location_name)
        partial == {i \in 1..Len(models) :
                      IsSubstring(slug, models[i].slug) \/ IsSubstring(models[i].slug, slug)}
    IN  IF slug \in Slugs(models) THEN [raised |-> FALSE, slug |-> slug]
        ELSE IF partial # {}
             THEN [raised |-> FALSE,
                   slug |-> models[CHOOSE i \in partial : \A j \in partial : i <= j].slug]
        ELSE IF Len(models) > 0 THEN [raised |-> FALSE, slug |-> models[1].slug]
        ELSE [raised |-> TRUE, slug |-> NoSlug]

\* ---------------------------------------------------------- historical tables

\* WeatherLSTMModel.seq_length: the model input is reshaped to (1, 30, 3)
SeqLength == 30
\* historical_data_df[feature_columns].tail(30)
WindowRows == 30
\* main.get_30_day_forecast: len(historical_df) < 30 is answered 400
MinHistoryRows == 30
\* range(30): the days of a forecast
ForecastDays == 30

\* pd.DataFrame(columns=[...]): what get_weather_data returns without local data
\* A table is its number of rows, the date of its last row (rows are in
\* ascending date order, so this is date.max()) and the number of calendar
\* days missing between the dates of its last 30 rows.
EmptyTable == [rows |-> 0, maxDate |-> NaT, missingDays |-> 0]

Min(a, b) == IF a <= b THEN a ELSE b

\* --------------------------------------- LocationModel.predict_next_30_days

\* predict_next_30_days with the forecast dated from the first day of the
\* window plus the window length, as if the history had no missing days
PredictNext30DaysFromWindowStart(entry, hist) ==
    LET window == Min(hist.rows, WindowRows)
        window_first == hist.maxDate - ((window - 1) + hist.missingDays)
        start_date == window_first + window
        failed(e, t) == [ok |-> FALSE, error |-> e, slug |-> entry.slug,
                         transformed |-> t, invoked |-> FALSE, start |-> NoDate,
                         dates |-> <<>>]
    IN  IF ~entry.fitted THEN failed("NotFittedError", FALSE)
        ELSE IF window = 0 THEN failed("ValueError: 0 samples", FALSE)
        ELSE IF window # SeqLength THEN failed("ValueError: cannot reshape", TRUE)
        ELSE [ok |-> TRUE, error |-> NoError, slug |-> entry.slug,
              transformed |-> TRUE, invoked |-> TRUE, start |-> start_date,
              dates |-> [i \in 1..ForecastDays |-> start_date + (i - 1)]]

\* predict_next_30_days reading date.max() from the cache as it is when the
\* prediction ends, not from the table it was called with
PredictNext30DaysOnLiveCache(entry, hist) ==
    LET window == Min(hist.rows, WindowRows)
        live == IF cached_weather_data # None THEN cached_weather_data ELSE hist
        start_date == live.maxDate + 1
        failed(e, t) == [ok |-> FALSE, error |-> e, slug |-> entry.slug,
                         transformed |-> t, invoked |-> FALSE, start |-> NoDate,
                         dates |-> <<>>]
    IN  IF ~entry.fitted THEN failed("NotFittedError", FALSE)
        ELSE IF window = 0 THEN failed("ValueError: 0 samples", FALSE)
        ELSE IF window # SeqLength THEN failed("ValueError: cannot reshape", TRUE)
        ELSE [ok |-> TRUE, error |-> NoError, slug |-> entry.slug,
              transformed |-> TRUE, invoked |-> TRUE, start |-> start_date,
              dates |-> [i \in 1..ForecastDays |-> start_date + (i - 1)]]

\* ok = FALSE stands for the exception it re-raises, named in error; start is
\* the first date of the returned frame.  slug, transformed and invoked are
\* not in the returned frame: they record which entry ran, whether
\* scaler.transform returned the normalized window and whether the network's
\* predict was called.
PredictNext30Days(entry, hist) ==
    LET window == Min(hist.rows, WindowRows)
        start_date == hist.maxDate + 1
        failed(e, t) == [ok |-> FALSE, error |-> e, slug |-> entry.slug,
                         transformed |-> t, invoked |-> FALSE, start |-> NoDate,
                         dates |-> <<>>]
    IN  IF ~entry.fitted THEN failed("NotFittedError", FALSE)
        ELSE IF window = 0 THEN failed("ValueError: 0 samples", FALSE)
        ELSE IF window # SeqLength THEN failed("ValueError: cannot reshape", TRUE)
        ELSE [ok |-> TRUE, error |-> NoError, slug |-> entry.slug,
              transformed |-> TRUE, invoked |-> TRUE, start |-> start_date,
              dates |-> [i \in 1..ForecastDays |-> start_date + (i - 1)]]

\* ------------------------------------ MultiLocationPredictor.predict_next_month

PredictNextMonth(models, hist, location) ==
    LET resolved == GetLocationSlug(models, location)
    IN  IF resolved.raised
        THEN [ok |-> FALSE, error |-> "ValueError: No models available", slug |-> NoSlug,
              transformed |-> FALSE, invoked |-> FALSE, start |-> NoDate, dates |-> <<>>]
        ELSE PredictNext30Days(
                 models[CHOOSE i \in 1..Len(models) : models[i].slug = resolved.slug],
                 hist)

\* ------------------------------------------------- the registry, called directly

\* request.location: a slug, a name that needs normalizing, a name no slug matches
RequestLocations == { <<"a", "_", "b">>, <<"A">>, <<",">> }

\* histories handed to the orchestrator by a direct caller
HistoryTables ==
    {EmptyTable} \cup [rows : {10, 29, 30, 31}, maxDate : {0, 7}, missingDays : {0, 3}]

InitRegistry ==
    /\ modelDir \in ModelDirs
    /\ predictor = None
    /\ csv = None
    /\ cached_weather_data = None
    /\ today = 0
    /\ config = None
    /\ phase = "boot"
    /\ pool = {}
    /\ cache_refresh_task = None
    /\ farmers = <<>>
    /\ password_set = <<>>
    /\ response = None
    /\ call = None
    /\ predictions_df = <<>>
    /\ summary = None
    /\ alerts = None

\* MultiLocationPredictor(): __init__ runs _load_all_models
Construct ==
    /\ predictor = None
    /\ predictor' = MultiLocationPredictor(modelDir)
    /\ UNCHANGED <<modelDir, call, serverVars, statsVars, authVars>>

CallGetLocationSlug ==
    /\ predictor # None
    /\ call = None
    /\ \E location \in LocationStrings :
         call' = [op |-> "_get_location_slug", location |-> location,
                  out |-> GetLocationSlug(predictor.models, location)]
    /\ UNCHANGED <<modelDir, predictor, serverVars, statsVars, authVars>>

CallPredictNextMonth ==
    /\ predictor # None
    /\ call = None
    /\ \E location \in RequestLocations, hist \in HistoryTables :
         call' = [op |-> "predict_next_month", rows |-> hist.rows,
                  last_date |-> hist.maxDate, missing |-> hist.missingDays,
                  out |-> PredictNextMonth(predictor.models, hist, location)]
    /\ UNCHANGED <<modelDir, predictor, serverVars, statsVars, authVars>>

\* the caller takes the result (or the exception) and may call again
ReturnCall ==
    /\ call # None
    /\ call' = None
    /\ UNCHANGED <<modelDir, predictor, serverVars, statsVars, authVars>>

NextRegistry == Construct \/ CallGetLocationSlug \/ CallPredictNextMonth \/ ReturnCall

SpecRegistry == InitRegistry /\ [][NextRegistry]_vars

\* ------------------------------------------------------------------ C1
\* C1: after the registry is built over a directory with one corrupted model
\* artifact (no loader can read the file) among loadable ones, the corrupted
\* location is absent from the registry: the registry holds exactly the slugs
\* of the loadable artifacts.
LoadableSlugs(dir) ==
    {dir[i].slug : i \in {j \in 1..Len(dir) : dir[j].model \in {"hdf5", "keras"}}}

ValidSlugs(dir) ==
    {dir[i].slug : i \in {j \in 1..Len(dir) : dir[j].model \in {"hdf5", "keras"}
                                                /\ dir[j].scaler = "ok"}}

C1_CorruptedModelIsAbsent ==
    (/\ predictor # None
     /\ Len(modelDir) >= 2
     /\ \A i \in 1..Len(modelDir) : modelDir[i].model # "missing"
     /\ Cardinality(LoadableSlugs(modelDir)) = Len(modelDir) - 1
     /\ Cardinality(ValidSlugs(modelDir)) = Len(modelDir) - 1)
        => /\ Slugs(predictor.models) = ValidSlugs(modelDir)
           /\ Len(predictor.models) = Len(modelDir) - 1

\* ------------------------------------------------------------------ C2
\* C2: _get_location_slug, for every location string: with at least one model
\* loaded it does not raise and returns a key of the registry; with no model
\* loaded it raises.
C2_ResolutionTotalOnNonEmptyRegistry ==
    (call # None /\ call.op = "_get_location_slug") =>
        /\ Len(predictor.models) > 0 =>
               (~call.out.raised /\ call.out.slug \in Slugs(predictor.models))
        /\ Len(predictor.models) = 0 => call.out.raised

C2_Witness ==
    /\ call # None
    /\ call.op = "_get_location_slug"
    /\ Len(predictor.models) = 2
    /\ ~call.out.raised
    /\ call.out.slug = predictor.models[2].slug

C2_WitnessEmpty ==
    /\ call # None
    /\ call.op = "_get_location_slug"
    /\ Len(predictor.models) = 0
    /\ call.out.raised

\* ------------------------------------------------------------------ C12
\* C12: every successful forecast has exactly 30 records, dated d+1, d+2, ...,
\* d+30 with d the date of the last row of the history, one day apart,
\* whether or not days are missing among the dates of the history.
C12_ForecastDatesContiguous ==
    (call # None /\ call.op = "predict_next_month" /\ call.out.ok) =>
        /\ Len(call.out.dates) = 30
        /\ \A i \in 1..30 : call.out.dates[i] = call.last_date + i
        /\ \A i \in 1..29 : call.out.dates[i + 1] = call.out.dates[i] + 1

C12_Witness ==
    /\ call # None
    /\ call.op = "predict_next_month"
    /\ call.out.ok
    /\ call.rows = 31
    /\ call.missing = 3
    /\ call.last_date = 7
    /\ call.out.dates[1] = 8
    /\ call.out.dates[30] = 37

\* ------------------------------------------------------------------ C14
\* C14: after initialization a location is in the registry if and only if
\* its model artifact loads (some loader reads the file) and its scaler
\* artifact loads or is absent; a scaler that is present and unreadable, or a
\* model file that is gone, leaves the location out.
ModelArtifactLoads(artifact) == artifact.model \in {"hdf5", "keras"}

C14_RetainedIffModelAndScalerLoad ==
    predictor # None =>
        \A i \in 1..Len(modelDir) :
            (modelDir[i].slug \in Slugs(predictor.models))
                <=> (/\ ModelArtifactLoads(modelDir[i])
                     /\ modelDir[i].scaler \in {"ok", "missing"})

\* ------------------------------------------------------- forecast series

\* float('nan'): no comparison with it is true
NaN == -1000000

\* float('inf') and float('-inf'): above and below every number
PInf == 1000000
NInf == -999999

IsNaN(x) == x = NaN
IsInf(x) == x \in {PInf, NInf}

\* x + y on floats
FAdd(x, y) ==
    IF IsNaN(x) \/ IsNaN(y) THEN NaN
    ELSE IF IsInf(x) /\ IsInf(y) THEN (IF x = y THEN x ELSE NaN)
    ELSE IF IsInf(x) THEN x
    ELSE IF IsInf(y) THEN y
    ELSE x + y

\* x / n on floats for a count n > 0, cut to the model's unit
FDiv(x, n) == IF IsNaN(x) \/ IsInf(x) THEN x ELSE x \div n

\* x > y, x < y, x <= y on floats
Gt(x, y) == x # NaN /\ y # NaN /\ x > y
Lt(x, y) == x # NaN /\ y # NaN /\ x < y
Le(x, y) == x # NaN /\ y # NaN /\ x <= y

Column(df, name) == [i \in 1..Len(df) |-> df[i][name]]

\* np.max: NaN as soon as one value is NaN
RECURSIVE NpMaxFrom(_, _, _)
NpMaxFrom(values, i, best) ==
    IF i > Len(values) THEN best
    ELSE IF values[i] = NaN \/ best = NaN THEN NaN
    ELSE NpMaxFrom(values, i + 1, IF values[i] > best THEN values[i] ELSE best)

NpMax(values) == NpMaxFrom(values, 2, values[1])

\* the values pandas keeps with skipna=True
NotNaN(values) == {i \in 1..Len(values) : ~IsNaN(values[i])}

\* Series.sum(): NaN is skipped, the sum of nothing is 0
RECURSIVE SeriesSumFrom(_, _, _)
SeriesSumFrom(values, i, acc) ==
    IF i > Len(values) THEN acc
    ELSE SeriesSumFrom(values, i + 1,
                       IF IsNaN(values[i]) THEN acc ELSE FAdd(acc, values[i]))

SeriesSum(values) == SeriesSumFrom(values, 1, 0)

\* Series.mean(): NaN is skipped, the mean of nothing is NaN
SeriesMean(values) ==
    IF NotNaN(values) = {} THEN NaN
    ELSE FDiv(SeriesSum(values), Cardinality(NotNaN(values)))

\* Series.max() and Series.min(): NaN is skipped, NaN when nothing is left
SeriesMax(values) ==
    IF NotNaN(values) = {} THEN NaN
    ELSE LET kept == {values[i] : i \in NotNaN(values)}
         IN  CHOOSE m \in kept : \A v \in kept : m >= v

SeriesMin(values) ==
    IF NotNaN(values) = {} THEN NaN
    ELSE LET kept == {values[i] : i \in NotNaN(values)}
         IN  CHOOSE m \in kept : \A v \in kept : m <= v

\* the fallback that only looks for NaN
ZeroIfNaN(x) == IF IsNaN(x) THEN 0 ELSE x

\* 0 if (np.isnan(x) or np.isinf(x)) else x
ZeroIfNotFinite(x) == IF IsNaN(x) \/ IsInf(x) THEN 0 ELSE x

\* len(df[cond]): the rows a filter keeps
CountWhere(values, Cond(_)) == Cardinality({i \in 1..Len(values) : Cond(values[i])})

\* ------------------------------ MultiLocationPredictor.get_summary_stats

\* rain_threshold with the limits compared by <= instead of <
RainThresholdInclusive(rainfall_values) ==
    LET rainfall_max == NpMax(rainfall_values)
    IN  IF Le(rainfall_max, 10) THEN 5
        ELSE IF Le(rainfall_max, 50) THEN 10
        ELSE 50

\* rain_threshold, chosen from the maximum of the series
RainThreshold(rainfall_values) ==
    LET rainfall_max == NpMax(rainfall_values)
    IN  IF Lt(rainfall_max, 10) THEN 5
        ELSE IF Lt(rainfall_max, 50) THEN 10
        ELSE 50

\* get_summary_stats counting a day at the threshold as rainy
GetSummaryStatsAtThresholdRainy(df) ==
    IF Len(df) = 0 THEN None
    ELSE LET rainfall_values == Column(df, "rainfall")
             rain_threshold  == RainThreshold(rainfall_values)
             rainy(v) == Le(rain_threshold, v)
             dry(v)   == Lt(v, rain_threshold)
         IN  [rainy_days |-> CountWhere(rainfall_values, rainy),
              dry_days   |-> CountWhere(rainfall_values, dry)]

\* the summary; {} for an absent or empty frame
GetSummaryStats(df) ==
    IF Len(df) = 0 THEN None
    ELSE LET rainfall_values == Column(df, "rainfall")
             rain_threshold  == RainThreshold(rainfall_values)
             rainy(v) == Gt(v, rain_threshold)
             dry(v)   == Le(v, rain_threshold)
         IN  [avg_max_temp       |-> ZeroIfNotFinite(SeriesMean(Column(df, "temp_max"))),
              avg_min_temp       |-> ZeroIfNotFinite(SeriesMean(Column(df, "temp_min"))),
              max_temperature    |-> ZeroIfNotFinite(SeriesMax(Column(df, "temp_max"))),
              min_temperature    |-> ZeroIfNotFinite(SeriesMin(Column(df, "temp_min"))),
              total_rainfall     |-> ZeroIfNotFinite(SeriesSum(rainfall_values)),
              avg_daily_rainfall |-> ZeroIfNotFinite(SeriesMean(rainfall_values)),
              rainy_days |-> CountWhere(rainfall_values, rainy),
              dry_days   |-> CountWhere(rainfall_values, dry)]

\* --------------------------- MultiLocationPredictor.get_alert_suggestions

\* no_rain_threshold, chosen from the maximum of the series
NoRainThreshold(rainfall_values) ==
    LET rainfall_max == NpMax(rainfall_values)
    IN  IF Lt(rainfall_max, 10) THEN 5
        ELSE IF Lt(rainfall_max, 50) THEN 10
        ELSE 50

\* more than this many consecutive dry days is a drought
DroughtDays == 15
HighTemp == 400
HeavyRain == 500
FrostTemp == 100

\* the loop over rainfall_values: max_dry_streak after days i..end
RECURSIVE MaxDryStreakFrom(_, _, _, _, _)
MaxDryStreakFrom(values, i, threshold, dry_streak, max_dry_streak) ==
    IF i > Len(values) THEN max_dry_streak
    ELSE IF Lt(values[i], threshold)
         THEN MaxDryStreakFrom(values, i + 1, threshold, dry_streak + 1,
                               IF dry_streak + 1 > max_dry_streak
                               THEN dry_streak + 1 ELSE max_dry_streak)
         ELSE MaxDryStreakFrom(values, i + 1, threshold, 0, max_dry_streak)

\* the drought loop without "else: dry_streak = 0": all dry days are counted
MaxDryStreakNoReset(values, threshold) ==
    LET below(v) == Lt(v, threshold) IN CountWhere(values, below)

\* the drought loop with `rain <= no_rain_threshold`: a day at the threshold
\* continues the streak
MaxDryStreakAtThresholdDry(values, threshold) ==
    MaxDryStreakFrom(values, 1, threshold + 1, 0, 0)

MaxDryStreak(values, threshold) == MaxDryStreakFrom(values, 1, threshold, 0, 0)

\* get_alert_suggestions with the limits compared by >= and <=
GetAlertSuggestionsInclusive(df) ==
    IF Len(df) = 0
    THEN [high_temperature |-> 0, heavy_rainfall |-> 0, drought_risk |-> 0, frost_risk |-> 0]
    ELSE LET rainfall_values  == Column(df, "rainfall")
             hot(v)    == Le(HighTemp, v)
             heavy(v)  == Le(HeavyRain, v)
             frost(v)  == Le(v, FrostTemp)
             max_dry_streak ==
                 MaxDryStreak(rainfall_values, NoRainThreshold(rainfall_values))
         IN  [high_temperature |-> CountWhere(Column(df, "temp_max"), hot),
              heavy_rainfall   |-> CountWhere(rainfall_values, heavy),
              drought_risk     |-> IF max_dry_streak > DroughtDays THEN 1 ELSE 0,
              frost_risk       |-> CountWhere(Column(df, "temp_min"), frost)]

GetAlertSuggestions(df) ==
    IF Len(df) = 0
    THEN [high_temperature |-> 0, heavy_rainfall |-> 0, drought_risk |-> 0, frost_risk |-> 0]
    ELSE LET rainfall_values  == Column(df, "rainfall")
             hot(v)    == Gt(v, HighTemp)
             heavy(v)  == Gt(v, HeavyRain)
             frost(v)  == Lt(v, FrostTemp)
             max_dry_streak ==
                 MaxDryStreak(rainfall_values, NoRainThreshold(rainfall_values))
         IN  [high_temperature |-> CountWhere(Column(df, "temp_max"), hot),
              heavy_rainfall   |-> CountWhere(rainfall_values, heavy),
              drought_risk     |-> IF max_dry_streak > DroughtDays THEN 1 ELSE 0,
              frost_risk       |-> CountWhere(Column(df, "temp_min"), frost)]

\* ------------------------------------------ the statistics engine on a series

\* a series of ForecastDays days: dayB on days n1+1 .. n1+n2, dayA on the others
SeriesOf(dayA, dayB, n1, n2) ==
    [i \in 1..ForecastDays |-> IF i > n1 /\ i <= n1 + n2 THEN dayB ELSE dayA]

\* rainfall in tenths of a millimetre, on both sides of 0.5, 1.0 and 5.0
RainValues == {NaN, 0, 5, 8, 10, 30, 50, 60}
\* days on both sides of the alert limits 40 C, 10 C and 50 mm
LimitDays == [temp_max : {399, 400, 401}, temp_min : {99, 100, 101},
              rainfall : {0, 500, 501}]
\* the days around them: dry, and at or below the temperature limits
CalmDays == [temp_max : {399, 400}, temp_min : {100, 101}, rainfall : {0}]

MildDay(rain) == [temp_max |-> 300, temp_min |-> 200, rainfall |-> rain]

\* dry and wet spells: rainfall lo, then hi for n2 days, then lo again
InitSpells ==
    \E lo \in RainValues, hi \in RainValues :
        \E n1 \in 0..ForecastDays :
            \E n2 \in 0..(ForecastDays - n1) :
                predictions_df = SeriesOf(MildDay(lo), MildDay(hi), n1, n2)

\* one day b at the alert limits among calm days a
InitLimits ==
    \E a \in CalmDays, b \in LimitDays :
        \E n1 \in 0..(ForecastDays - 1) :
            predictions_df = SeriesOf(a, b, n1, 1)

\* what a degenerate model puts in a column, and one ordinary value
DegenerateValues == {NaN, PInf, NInf, 250}

\* a series that is day a, then day b (one value in all its columns) for its
\* last days
InitDegenerate ==
    \E a \in [temp_max : DegenerateValues, temp_min : DegenerateValues,
               rainfall : DegenerateValues] :
        \E v \in DegenerateValues, n2 \in {0, 1, 15} :
            predictions_df =
                SeriesOf(a, [temp_max |-> v, temp_min |-> v, rainfall |-> v],
                         ForecastDays - n2, n2)

InitStats ==
    /\ InitSpells \/ InitLimits \/ InitDegenerate
    /\ summary = None
    /\ alerts = None
    /\ modelDir = <<>>
    /\ predictor = None
    /\ csv = None
    /\ cached_weather_data = None
    /\ today = 0
    /\ config = None
    /\ phase = "boot"
    /\ pool = {}
    /\ cache_refresh_task = None
    /\ farmers = <<>>
    /\ password_set = <<>>
    /\ response = None
    /\ call = None

\* format_for_response: the summary and the alerts of one series
FormatForResponse ==
    /\ summary = None
    /\ summary' = GetSummaryStats(predictions_df)
    /\ alerts' = GetAlertSuggestions(predictions_df)
    /\ UNCHANGED <<predictions_df, modelDir, predictor, call, serverVars, authVars>>

NextStats == FormatForResponse

SpecStats == InitStats /\ [][NextStats]_vars

\* ------------------------------------------------- claims on the statistics

Rainfall == Column(predictions_df, "rainfall")
Values(column) == {column[i] : i \in 1..Len(column)}
HasNaN(column) == NaN \in Values(column)
\* the greatest and the least value of a series without NaN
Greatest(column) == CHOOSE m \in Values(column) : \A v \in Values(column) : m >= v
Least(column) == CHOOSE m \in Values(column) : \A v \in Values(column) : m <= v
\* the threshold the adaptive rule prescribes for maximum m
PrescribedThreshold(m) == IF m < 10 THEN 5 ELSE IF m < 50 THEN 10 ELSE 50

\* ------------------------------------------------------------------ C4
\* C4: for every 30-day forecast series, get_summary_stats reports
\* rainy_days + dry_days = 30: every day is rainy or dry.
C4_RainyPlusDryIsThirty ==
    summary # None => summary.rainy_days + summary.dry_days = 30

\* ------------------------------------------------------------------ C5
\* C5: with m the maximum rainfall of the series, the threshold is 0.5 when
\* m < 1.0, 1.0 when 1.0 <= m < 5.0 and 5.0 when m >= 5.0, and
\* get_summary_stats and get_alert_suggestions select the same threshold.
C5_AdaptiveThresholdSelection ==
    summary # None =>
        LET r == Rainfall
            t == RainThreshold(r)
        IN  /\ ~HasNaN(r) =>
                 LET m == Greatest(r)
                 IN  /\ m < 10 => t = 5
                     /\ (10 <= m /\ m < 50) => t = 10
                     /\ m >= 50 => t = 50
            /\ NoRainThreshold(r) = t

C5_Witness ==
    /\ summary # None
    /\ ~HasNaN(Rainfall)
    /\ Greatest(Rainfall) = 10
    /\ Least(Rainfall) = 0
    /\ RainThreshold(Rainfall) = 10

\* ------------------------------------------------------------------ C6
\* C6 as claimed: every 30-day series whose rainfall values are not all equal
\* has rainy_days >= 1 and dry_days >= 1.
C6_VariationGivesBothKinds ==
    (summary # None /\ ~HasNaN(Rainfall) /\ Cardinality(Values(Rainfall)) > 1) =>
        (summary.rainy_days >= 1 /\ summary.dry_days >= 1)

\* C6 as amended: for every 30-day series without NaN, rainy_days >= 1 and
\* dry_days >= 1 exactly when the least rainfall is at or below the adaptive
\* threshold and the greatest rainfall is strictly above it.
C6_SplitIffThresholdInsideRange ==
    summary # None =>
        LET r == Values(Rainfall)
            m == CHOOSE v \in r : \A w \in r : v >= w
            t == PrescribedThreshold(m)
        IN  NaN \notin r =>
                ((summary.rainy_days >= 1 /\ summary.dry_days >= 1)
                   <=> ((\E v \in r : v <= t) /\ m > t))

C6_Witness ==
    /\ summary # None
    /\ Values(Rainfall) = {0, 8}
    /\ summary.rainy_days >= 1
    /\ summary.dry_days >= 1

\* ------------------------------------------------------------------ C7
\* C7: drought_risk fires iff some run of more than 15 consecutive days has
\* rainfall strictly below the adaptive threshold (16 days in a row fire, 15
\* do not); an all-zero series fires drought_risk and not heavy_rainfall.
DryRun(len) ==
    LET r == Rainfall
        t == NoRainThreshold(r)
    IN  \E first \in 1..(Len(r) - len + 1) :
            \A i \in first..(first + len - 1) : Lt(r[i], t)

C7_DroughtIffRunOver15 ==
    alerts # None =>
        /\ alerts.drought_risk \in {0, 1}
        /\ alerts.drought_risk = 1 <=> DryRun(16)
        /\ Values(Rainfall) = {0} => (alerts.drought_risk = 1 /\ alerts.heavy_rainfall = 0)

C7_Witness ==
    /\ alerts # None
    /\ DryRun(16)
    /\ ~DryRun(17)
    /\ alerts.drought_risk = 1

C7_WitnessFifteen ==
    /\ alerts # None
    /\ DryRun(15)
    /\ ~DryRun(16)
    /\ alerts.drought_risk = 0

\* ------------------------------------------------------------------ C8
\* C8: high_temperature fires iff some day has temp_max > 40, heavy_rainfall
\* iff some day has rainfall > 50, frost_risk iff some day has temp_min < 10;
\* each is decided by its own column alone.
SomeDay(name, Cond(_)) == \E i \in 1..Len(predictions_df) : Cond(predictions_df[i][name])

C8_ThresholdAlertsIndependent ==
    alerts # None =>
        LET over40(v)  == v # NaN /\ v > 400
            over50(v)  == v # NaN /\ v > 500
            under10(v) == v # NaN /\ v < 100
        IN  /\ alerts.high_temperature > 0 <=> SomeDay("temp_max", over40)
            /\ alerts.heavy_rainfall > 0 <=> SomeDay("rainfall", over50)
            /\ alerts.frost_risk > 0 <=> SomeDay("temp_min", under10)

C8_Witness ==
    LET is40(v) == v = 400
        is50(v) == v = 500
        is10(v) == v = 100
    IN  /\ alerts # None
        /\ SomeDay("temp_max", is40)
        /\ SomeDay("rainfall", is50)
        /\ SomeDay("temp_min", is10)
        /\ alerts.high_temperature = 0
        /\ alerts.heavy_rainfall = 0
        /\ alerts.frost_risk = 1

\* ------------------------------------------------------------------ C19
\* C19: for every series, also one with NaN, +Inf or -Inf in its columns,
\* get_summary_stats returns a summary whose aggregates are all numbers: the
\* averages and the total are 0 when their column has no number at all or
\* holds an infinity, the maximum is 0 when its column has no number or holds
\* +Inf, the minimum is 0 when its column has no number or holds -Inf; a NaN
\* beside numbers is left out of the aggregate.
NoNumber(column) == Values(column) = {NaN}
HasInf(column) == PInf \in Values(column) \/ NInf \in Values(column)
Numbers(column) == Values(column) \ {NaN, PInf, NInf}

C19_NonFiniteAggregatesAreZero ==
    summary # None =>
        LET tmax == Column(predictions_df, "temp_max")
            tmin == Column(predictions_df, "temp_min")
            rain == Column(predictions_df, "rainfall")
            number(x) == x \notin {NaN, PInf, NInf}
        IN  /\ number(summary.avg_max_temp) /\ number(summary.avg_min_temp)
            /\ number(summary.max_temperature) /\ number(summary.min_temperature)
            /\ number(summary.total_rainfall) /\ number(summary.avg_daily_rainfall)
            /\ (NoNumber(tmax) \/ HasInf(tmax)) => summary.avg_max_temp = 0
            /\ (NoNumber(tmin) \/ HasInf(tmin)) => summary.avg_min_temp = 0
            /\ (NoNumber(rain) \/ HasInf(rain)) => summary.avg_daily_rainfall = 0
            /\ (NoNumber(rain) \/ HasInf(rain)) => summary.total_rainfall = 0
            /\ (NoNumber(tmax) \/ PInf \in Values(tmax)) => summary.max_temperature = 0
            /\ (NoNumber(tmin) \/ NInf \in Values(tmin)) => summary.min_temperature = 0
            /\ (~NoNumber(tmax) /\ PInf \notin Values(tmax) /\ Numbers(tmax) # {})
                   => \A x \in Numbers(tmax) : summary.max_temperature >= x
            /\ (~NoNumber(tmin) /\ NInf \notin Values(tmin) /\ Numbers(tmin) # {})
                   => \A x \in Numbers(tmin) : summary.min_temperature <= x

C19_Witness ==
    /\ summary # None
    /\ HasNaN(Column(predictions_df, "temp_max"))
    /\ summary.avg_max_temp = 250
    /\ summary.max_temperature = 250
    /\ Values(Column(predictions_df, "temp_min")) = {PInf, NaN}
    /\ summary.avg_min_temp = 0
    /\ summary.min_temperature = 0
    /\ PInf \in Values(Rainfall)
    /\ summary.total_rainfall = 0

\* ------------------------------------------------------------ the HTTP server

\* modules.weather_data.get_weather_data: the local CSV, or an empty frame
get_weather_data(file) == IF file = None THEN EmptyTable ELSE file

\* what the CSV may hold: rows and the latest date in it
CsvTables == { [rows |-> 29, maxDate |-> 0, missingDays |-> 0],
               [rows |-> 30, maxDate |-> 0, missingDays |-> 3],
               [rows |-> 30, maxDate |-> 1, missingDays |-> 0] }

\* the registries the server is run over
ServerDirs ==
    { <<>>,
      <<[slug |-> <<"a", "_", "b">>, model |-> "hdf5", scaler |-> "ok"]>>,
      <<[slug |-> <<"a", "_", "b">>, model |-> "keras", scaler |-> "ok"],
        [slug |-> <<"a">>, model |-> "hdf5", scaler |-> "missing"]>>,
      <<[slug |-> <<"b">>, model |-> "corrupt", scaler |-> "corrupt"]>> }

\* CACHE_REFRESH_HOURS: the default, and 0 that disables the refresher
RefreshHoursDefault == 6

\* the environment: CACHE_INVALIDATE_ON_REQUEST and CACHE_REFRESH_HOURS
Configs ==
    { [invalidate_on_request |-> FALSE, refresh_hours |-> RefreshHoursDefault],
      [invalidate_on_request |-> TRUE, refresh_hours |-> 0] }

\* asyncio.create_task(_cache_refresher(CACHE_REFRESH_HOURS)): the task, with
\* where its coroutine stands ("sleeping" in asyncio.sleep, "cancelling" once
\* cancel() was called on it, "done" after the loop was left) and what its
\* last turn logged. shutdown_event sets the global to None; the task is kept
\* here to follow it to its end.
RefresherTask == [coro |-> "_cache_refresher", state |-> "sleeping", last |-> "none"]

Init ==
    /\ modelDir \in ServerDirs
    /\ predictor = None
    /\ csv \in {None} \cup CsvTables
    /\ cached_weather_data = None
    /\ today = 1
    /\ config \in Configs
    /\ phase = "boot"
    /\ pool = {}
    /\ cache_refresh_task = None
    /\ farmers = <<>>
    /\ password_set = <<>>
    /\ response = None
    /\ call = None
    /\ predictions_df = <<>>
    /\ summary = None
    /\ alerts = None

\* startup_event: predictor and cache are set, the refresher is scheduled
Startup ==
    /\ phase = "boot"
    /\ phase' = "serving"
    /\ predictor' = MultiLocationPredictor(modelDir)
    /\ cached_weather_data' = get_weather_data(csv)
    /\ cache_refresh_task' = IF config.refresh_hours > 0 THEN RefresherTask ELSE None
    /\ UNCHANGED <<modelDir, csv, today, config, pool, response, call, statsVars,
                   authVars>>

\* startup_event: MultiLocationPredictor() raised; the error is logged and
\* the server starts without predictor and without cache
StartupFailed ==
    /\ phase = "boot"
    /\ phase' = "serving"
    /\ UNCHANGED <<modelDir, predictor, csv, cached_weather_data, today, config, pool,
                   response, call, statsVars, cache_refresh_task, authVars>>

\* the local CSV is replaced, removed or created
CsvChange ==
    /\ \E file \in ({None} \cup CsvTables) \ {csv} : csv' = file
    /\ UNCHANGED <<modelDir, predictor, cached_weather_data, today, config, phase,
                   pool, response, call, statsVars, cache_refresh_task, authVars>>

\* lstm_*.h5 and scaler_*.pkl files are written, replaced or removed while
\* the server runs (a training run, a deployment)
ModelDirChange ==
    /\ phase = "serving"
    /\ \E dir \in ServerDirs \ {modelDir} : modelDir' = dir
    /\ UNCHANGED <<predictor, csv, cached_weather_data, today, config, phase, pool,
                   response, call, statsVars, cache_refresh_task, authVars>>

\* _cache_refresher, one turn of its loop: after the sleep the data is loaded
\* again and replaces the cache unless it is empty
CacheRefresh ==
    /\ cache_refresh_task # None
    /\ cache_refresh_task.state = "sleeping"
    /\ LET new_data == get_weather_data(csv)
       IN  /\ cached_weather_data' = IF new_data.rows > 0 THEN new_data
                                     ELSE cached_weather_data
           /\ cache_refresh_task' =
                  [cache_refresh_task EXCEPT
                      !.last = IF new_data.rows > 0 THEN "updated" ELSE "kept"]
    /\ UNCHANGED <<modelDir, predictor, csv, today, config, phase, pool, response,
                   call, statsVars, authVars>>

\* _cache_refresher, one turn in which get_weather_data() raised: except
\* Exception logs the error and the loop goes on
CacheRefreshError ==
    /\ cache_refresh_task # None
    /\ cache_refresh_task.state = "sleeping"
    /\ cache_refresh_task' = [cache_refresh_task EXCEPT !.last = "error"]
    /\ UNCHANGED <<modelDir, predictor, csv, cached_weather_data, today, config, phase,
                   pool, response, call, statsVars, authVars>>

\* a shutdown that forgets the task without cancelling it
ShutdownWithoutCancel ==
    /\ phase = "serving"
    /\ phase' = "stopped"
    /\ UNCHANGED <<modelDir, predictor, csv, cached_weather_data, today, config, pool,
                   response, call, statsVars, cache_refresh_task, authVars>>

\* shutdown_event: the refresher, when there is one, is cancelled and the
\* global is set to None
Shutdown ==
    /\ phase = "serving"
    /\ phase' = "stopped"
    /\ cache_refresh_task' =
           IF cache_refresh_task # None
           THEN [cache_refresh_task EXCEPT !.state = "cancelling"]
           ELSE None
    /\ UNCHANGED <<modelDir, predictor, csv, cached_weather_data, today, config, pool,
                   response, call, statsVars, authVars>>

\* _cache_refresher: CancelledError is raised in asyncio.sleep, logged, and
\* the loop is left
RefresherCancelled ==
    /\ cache_refresh_task # None
    /\ cache_refresh_task.state = "cancelling"
    /\ cache_refresh_task' =
           [cache_refresh_task EXCEPT !.state = "done", !.last = "cancelled"]
    /\ UNCHANGED <<modelDir, predictor, csv, cached_weather_data, today, config, phase,
                   pool, response, call, statsVars, authVars>>

\* midnight
Tick ==
    /\ today < MaxDay
    /\ today' = today + 1
    /\ UNCHANGED <<modelDir, predictor, csv, cached_weather_data, config, phase, pool,
                   response, call, statsVars, cache_refresh_task, authVars>>

\* a handler that builds a new predictor for every request
PredictorRebuiltPerRequest == MultiLocationPredictor(modelDir)

\* a handler that works with the predictor startup left, built or not
PredictorAsStartupLeftIt == predictor

\* the predictor a handler works with: built on demand when startup left none
PredictorOnDemand == IF predictor = None THEN MultiLocationPredictor(modelDir) ELSE predictor

\* cached_max < today - 1; an empty frame has no date, .date() raises, and the
\* except branch reloads as well
CacheIsStale(table) == table.maxDate = NaT \/ table.maxDate < today - 1

\* get_30_day_forecast, lines 227..250: [historical_df, cache], the table the
\* request works on and the cache it leaves
HistoricalData ==
    IF config.invalidate_on_request
    THEN [historical_df |-> get_weather_data(csv), cache |-> cached_weather_data]
    ELSE IF cached_weather_data # None
         THEN IF CacheIsStale(cached_weather_data)
              THEN [historical_df |-> get_weather_data(csv), cache |-> get_weather_data(csv)]
              ELSE [historical_df |-> cached_weather_data, cache |-> cached_weather_data]
         ELSE [historical_df |-> get_weather_data(csv), cache |-> cached_weather_data]

\* the check with the limit one row too low
TooShortOffByOne(historical_df) == historical_df.rows < MinHistoryRows - 1

\* len(historical_df) < 30
TooShort(historical_df) == historical_df.rows < MinHistoryRows

\* the response of a handler; location is the request's string echoed back.
\* rows, served_by, transformed and invoked record what happened inside:
\* the rows of the table worked on, the slug of the model that predicted,
\* whether the window was normalized and whether the network was called.
Response(endpoint, status, location, rows, result) ==
    [endpoint |-> endpoint, status |-> status, location |-> location, rows |-> rows,
     served_by |-> result.slug, transformed |-> result.transformed,
     invoked |-> result.invoked, error |-> result.error, start |-> result.start]

NothingPredicted ==
    [ok |-> FALSE, error |-> NoError, slug |-> NoSlug, transformed |-> FALSE,
     invoked |-> FALSE, start |-> NoDate, dates |-> <<>>]

\* POST /predict/next-month up to the await: the predictor is built on demand,
\* the table is obtained, a short table is answered 400, otherwise the
\* prediction is handed to the thread pool
ForecastRequest ==
    /\ phase = "serving"
    /\ Cardinality(pool) < MaxInflight
    /\ \E location \in RequestLocations :
         LET data == HistoricalData
         IN  /\ predictor' = PredictorOnDemand
             /\ cached_weather_data' = data.cache
             /\ IF TooShort(data.historical_df)
                THEN /\ response' = Response("next-month", 400, location,
                                             data.historical_df.rows, NothingPredicted)
                     /\ pool' = pool
                ELSE /\ pool' = pool \cup {[location |-> location,
                                            historical_df |-> data.historical_df]}
                     /\ response' = response
    /\ UNCHANGED <<modelDir, csv, today, config, phase, call, statsVars,
                   cache_refresh_task, authVars>>

\* POST /predict/next-month: MultiLocationPredictor() raised when the handler
\* built the predictor on demand; except Exception answers 500
ForecastRequestNoPredictor ==
    /\ phase = "serving"
    /\ predictor = None
    /\ \E location \in RequestLocations :
         response' = Response("next-month", 500, location, NoRows,
                              [NothingPredicted EXCEPT !.error = "predictor"])
    /\ UNCHANGED <<modelDir, predictor, csv, cached_weather_data, today, config, phase,
                   pool, call, statsVars, cache_refresh_task, authVars>>

\* except Exception answering 400 for a ValueError and 500 for the others
ForecastStatusValueErrorIs400(result) ==
    IF result.ok THEN 200
    ELSE IF result.error \in {"ValueError: No models available", "ValueError: 0 samples",
                              "ValueError: cannot reshape"}
         THEN 400
    ELSE 500

\* the status of get_30_day_forecast after the await: the formatted forecast
\* is returned, and except Exception raises HTTPException(500, detail)
ForecastStatus(result) == IF result.ok THEN 200 ELSE 500

\* POST /predict/next-month from the await on: predict_next_month ran in the
\* thread pool; its result is formatted and answered 200, its exception 500
ForecastResponse ==
    /\ \E job \in pool :
         LET result == PredictNextMonth(predictor.models, job.historical_df, job.location)
         IN  /\ pool' = pool \ {job}
             /\ response' = Response("next-month", ForecastStatus(result),
                                     job.location, job.historical_df.rows, result)
    /\ UNCHANGED <<modelDir, predictor, csv, cached_weather_data, today, config, phase,
                   call, statsVars, cache_refresh_task, authVars>>

\* the dates a caller of /predict/specific-date asks for
RequestDates == {2, 40}

\* GET /predict/specific-date/{date}: the cached table, or a freshly loaded
\* one, goes to predict_next_month as it is; 404 when the date is not among
\* the 30 forecast days
SpecificDateRequest ==
    /\ phase = "serving"
    /\ \E location \in RequestLocations, date \in RequestDates :
         LET models == PredictorOnDemand.models
             historical_df == IF cached_weather_data # None THEN cached_weather_data
                              ELSE get_weather_data(csv)
             result == PredictNextMonth(models, historical_df, location)
             found  == result.ok /\ date >= result.start
                                 /\ date < result.start + ForecastDays
         IN  /\ predictor' = PredictorOnDemand
             /\ response' = Response("specific-date",
                                     IF ~result.ok THEN 500
                                     ELSE IF found THEN 200 ELSE 404,
                                     location, historical_df.rows, result)
    /\ UNCHANGED <<modelDir, csv, cached_weather_data, today, config, phase, pool,
                   call, statsVars, cache_refresh_task, authVars>>

\* str.upper() on one character
UpperChar(c) == IF c = "a" THEN "A" ELSE IF c = "b" THEN "B" ELSE c

\* str.title(): a letter is capitalized when no letter precedes it
Title(s) ==
    [i \in 1..Len(s) |->
        IF i = 1 \/ s[i - 1] \notin {"a", "b", "A", "B"}
        THEN UpperChar(s[i]) ELSE LowerChar(s[i])]

\* health_check with len(predictor.models) taken without looking for None:
\* the AttributeError is answered 500
health_check_unguarded(p) ==
    IF p = None
    THEN [endpoint |-> "health", status |-> 500, model_ready |-> FALSE,
          location_models_loaded |-> 0]
    ELSE [endpoint |-> "health", status |-> 200, model_ready |-> TRUE,
          location_models_loaded |-> Len(p.models)]

\* GET /health, for main.predictor = p
health_check(p) ==
    [endpoint |-> "health", status |-> 200, model_ready |-> (p # None),
     location_models_loaded |-> IF p # None THEN Len(p.models) ELSE 0]

Health ==
    /\ phase = "serving"
    /\ response' = health_check(predictor)
    /\ UNCHANGED <<modelDir, predictor, csv, cached_weather_data, today, config, phase,
                   pool, call, statsVars, cache_refresh_task, authVars>>

\* the list /info/available-models builds from predictor.models.keys()
ModelsList(models) ==
    [i \in 1..Len(models) |->
        [slug |-> models[i].slug, name |-> Title(ReplaceChar(models[i].slug, "_", " ")),
         model_loaded |-> TRUE]]

\* available_models_info that only looks for a missing predictor
available_models_info_no_empty_check(p) ==
    IF p = None
    THEN [endpoint |-> "available-models", status |-> 200,
          body_status |-> "no_models_loaded", available_models |-> 0]
    ELSE [endpoint |-> "available-models", status |-> 200, body_status |-> "success",
          total_models |-> Len(ModelsList(p.models)), models |-> ModelsList(p.models)]

\* GET /info/available-models, for main.predictor = p
available_models_info(p) ==
    IF p = None \/ Len(p.models) = 0
    THEN [endpoint |-> "available-models", status |-> 200,
          body_status |-> "no_models_loaded", available_models |-> 0]
    ELSE [endpoint |-> "available-models", status |-> 200, body_status |-> "success",
          total_models |-> Len(ModelsList(p.models)), models |-> ModelsList(p.models)]

AvailableModels ==
    /\ phase = "serving"
    /\ response' = available_models_info(predictor)
    /\ UNCHANGED <<modelDir, predictor, csv, cached_weather_data, today, config, phase,
                   pool, call, statsVars, cache_refresh_task, authVars>>

Next ==
    \/ Startup
    \/ StartupFailed
    \/ CsvChange
    \/ Tick
    \/ ForecastRequest
    \/ ForecastRequestNoPredictor
    \/ ForecastResponse
    \/ SpecificDateRequest

Spec == Init /\ [][Next]_vars

\* the server with its registry in view: the model directory changes under
\* it and /health and /info/available-models are asked between the
\* forecasts, over a CSV and a clock that stay as they are
InitService ==
    /\ Init
    /\ csv \in {None, [rows |-> 30, maxDate |-> 1, missingDays |-> 0]}

NextService ==
    \/ Startup
    \/ StartupFailed
    \/ ModelDirChange
    \/ Health
    \/ AvailableModels
    \/ ForecastRequest
    \/ ForecastRequestNoPredictor
    \/ ForecastResponse
    \/ SpecificDateRequest

SpecService == InitService /\ [][NextService]_vars

\* the server from startup to shutdown with its refresher, over a CSV that
\* changes and a clock that moves
NextRefresher ==
    \/ Startup
    \/ StartupFailed
    \/ CsvChange
    \/ Tick
    \/ CacheRefresh
    \/ CacheRefreshError
    \/ ForecastRequest
    \/ ForecastResponse
    \/ Shutdown
    \/ RefresherCancelled

SpecRefresher == Init /\ [][NextRefresher]_vars

\* ------------------------------------ POST /_internal/test/set-cache-max-date

\* the rows of the synthetic table: pd.date_range(end=end, periods=40)
TestTableRows == 40

\* the configuration with ENABLE_TEST_ENDPOINTS, off (the default) and on
TestConfigs ==
    { [invalidate_on_request |-> FALSE, refresh_hours |-> 0,
       enable_test_endpoints |-> e] : e \in BOOLEAN }

\* request bodies: a JSON object without max_date, with one that is no date,
\* with a date; a JSON string; no body at all
TestPayloads ==
    { [body |-> "object", max_date |-> None],
      [body |-> "object", max_date |-> [text |-> "x"]],
      [body |-> "object", max_date |-> [date |-> 0]],
      [body |-> "object", max_date |-> [date |-> MaxDay]],
      [body |-> "string", max_date |-> None],
      [body |-> "missing", max_date |-> None] }

TestEndpointResponse(status, body_status) ==
    [endpoint |-> "set-cache-max-date", status |-> status, body_status |-> body_status]

InitTestEndpoint ==
    /\ modelDir \in ServerDirs
    /\ predictor = None
    /\ csv \in {None, [rows |-> 30, maxDate |-> 1, missingDays |-> 0]}
    /\ cached_weather_data = None
    /\ today = 1
    /\ config \in TestConfigs
    /\ phase = "boot"
    /\ pool = {}
    /\ cache_refresh_task = None
    /\ farmers = <<>>
    /\ password_set = <<>>
    /\ response = None
    /\ call = None
    /\ predictions_df = <<>>
    /\ summary = None
    /\ alerts = None

\* _test_set_cache_max_date(payload: dict): FastAPI answers 422 for a body
\* that is not a JSON object before the handler runs; the handler answers 404
\* when the test endpoints are disabled; otherwise it caches 40 synthetic
\* days ending at max_date, or returns {"status": "error"} for a missing or
\* unparsable max_date
TestSetCacheMaxDate ==
    /\ phase = "serving"
    /\ \E payload \in TestPayloads :
         IF payload.body # "object"
         THEN /\ response' = TestEndpointResponse(422, "validation")
              /\ UNCHANGED cached_weather_data
         ELSE IF ~config.enable_test_endpoints
         THEN /\ response' = TestEndpointResponse(404, "disabled")
              /\ UNCHANGED cached_weather_data
         ELSE IF "date" \notin DOMAIN payload.max_date
         THEN /\ response' = TestEndpointResponse(200, "error")
              /\ UNCHANGED cached_weather_data
         ELSE /\ cached_weather_data' = [rows |-> TestTableRows,
                                         maxDate |-> payload.max_date.date,
                                         missingDays |-> 0]
              /\ response' = TestEndpointResponse(200, "ok")
    /\ UNCHANGED <<modelDir, predictor, csv, today, config, phase, pool, call,
                   statsVars, cache_refresh_task, authVars>>

NextTestEndpoint ==
    \/ Startup
    \/ StartupFailed
    \/ Tick
    \/ TestSetCacheMaxDate
    \/ ForecastRequest
    \/ ForecastResponse

SpecTestEndpoint == InitTestEndpoint /\ [][NextTestEndpoint]_vars

\* ------------------------------------------------------------------ C3
\* C3: every successful forecast hands the caller the slug the registry
\* resolved the location to: the slug of the model that served the request
\* can be read from the response.
C3_ResolvedSlugEchoed ==
    (response # None /\ response.endpoint = "next-month" /\ response.status = 200)
        => response.location = response.served_by

\* ------------------------------------------------------------------ C9
\* C9: POST /predict/next-month answers 400, without normalizing a window or
\* calling a model, whenever the table obtained for the request has fewer
\* than 30 rows (the empty frame included), whatever the registry holds.
C9_ShortHistoryIs400 ==
    /\ \A job \in pool : job.historical_df.rows >= 30
    /\ (/\ response # None
        /\ response.endpoint = "next-month"
        /\ response.rows # NoRows
        /\ response.rows < 30)
           => (response.status = 400 /\ ~response.transformed /\ ~response.invoked)

C9_Witness ==
    /\ response # None
    /\ response.endpoint = "next-month"
    /\ response.rows = 29
    /\ response.status = 400
    /\ predictor # None
    /\ Len(predictor.models) = 2

C9_WitnessEmptyFrame ==
    /\ response # None
    /\ response.endpoint = "next-month"
    /\ response.rows = 0
    /\ response.status = 400
    /\ csv = None

\* ------------------------------------------------------------------ C11
\* C11: a /predict/next-month request with at least 30 rows of history is
\* answered 200 or 500; it is answered 500, with a message, exactly when the
\* registry is empty or the resolved entry has no fitted scaler; such a
\* failure leaves the registry as it was, and after it the server still
\* accepts forecast requests and answers the dispatched ones.
C11_FailedRequest ==
    /\ response # None
    /\ response.endpoint = "next-month"
    /\ response.rows # NoRows
    /\ response.rows >= 30

C11_FailuresAnswered500 ==
    C11_FailedRequest =>
           LET models == predictor.models
           IN  /\ response.status \in {200, 500}
               /\ response.status = 500
                    <=> \/ Len(models) = 0
                        \/ \E i \in 1..Len(models) :
                              models[i].slug = response.served_by /\ ~models[i].fitted
               /\ response.status = 500 <=> response.error # NoError
               /\ Len(models) = 0 => response.error = "ValueError: No models available"
               /\ (response.status = 500 /\ Cardinality(pool) < MaxInflight)
                    => ENABLED ForecastRequest
               /\ (response.status = 500 /\ pool # {}) => ENABLED ForecastResponse

C11_RegistryKeptOnFailure ==
    (/\ response' # response
     /\ response'.endpoint = "next-month"
     /\ response'.status = 500
     /\ predictor # None)
        => predictor' = predictor

C13_RegistryImmutable ==
    [][predictor # None => predictor' = predictor]_vars

C13_Witness ==
    /\ predictor # None
    /\ Len(predictor.models) = 1
    /\ Len(LoadAllModels(modelDir)) = 2
    /\ response # None
    /\ response.endpoint = "next-month"
    /\ response.status = 200

\* ------------------------------------------------------------------ C15
\* C15: GET /health is answered, with 200, in every state of the running
\* server, also after a failed startup and with an empty registry; its
\* model_ready is true iff the predictor exists and its
\* location_models_loaded is the number of registry entries, 0 without a
\* predictor.
C15_HealthAnswer ==
    (response' # response /\ response'.endpoint = "health") =>
        /\ response'.status = 200
        /\ response'.model_ready <=> predictor # None
        /\ predictor = None => response'.location_models_loaded = 0
        /\ predictor # None =>
               response'.location_models_loaded = Cardinality(Slugs(predictor.models))

C15_HealthAlways200 ==
    [](phase = "serving" => ENABLED Health) /\ [][C15_HealthAnswer]_vars

C15_Witness ==
    /\ phase = "serving"
    /\ predictor = None
    /\ response # None
    /\ response.endpoint = "health"
    /\ response.status = 200
    /\ ~response.model_ready

C15_WitnessEmptyRegistry ==
    /\ predictor # None
    /\ Len(predictor.models) = 0
    /\ response # None
    /\ response.endpoint = "health"
    /\ response.model_ready
    /\ response.location_models_loaded = 0

\* ------------------------------------------------------------------ C16
\* C16: GET /info/available-models lists the slugs of the registry, each
\* once, and its total_models is the location_models_loaded /health reports
\* in the same state; without a predictor or with an empty registry it
\* answers no_models_loaded with the count 0.
C16_AvailableModelsAnswer ==
    (response' # response /\ response'.endpoint = "available-models") =>
        /\ response'.status = 200
        /\ IF predictor = None \/ Len(predictor.models) = 0
           THEN /\ response'.body_status = "no_models_loaded"
                /\ response'.available_models = 0
                /\ health_check(predictor).location_models_loaded = 0
           ELSE /\ response'.body_status = "success"
                /\ {response'.models[i].slug : i \in 1..Len(response'.models)}
                       = Slugs(predictor.models)
                /\ \A i, j \in 1..Len(response'.models) :
                       response'.models[i].slug = response'.models[j].slug => i = j
                /\ response'.total_models = Len(response'.models)
                /\ response'.total_models
                       = health_check(predictor).location_models_loaded

C16_AvailableModelsListsRegistry ==
    [][C16_AvailableModelsAnswer]_vars

C16_Witness ==
    /\ response # None
    /\ response.endpoint = "available-models"
    /\ response.body_status = "success"
    /\ response.total_models = 2
    /\ response.models[2].slug = <<"a">>
    /\ response.models[1].name = <<"A", " ", "B">>
    /\ Len(LoadAllModels(modelDir)) # 2

C16_WitnessNoModels ==
    /\ response # None
    /\ response.endpoint = "available-models"
    /\ response.body_status = "no_models_loaded"
    /\ predictor # None

\* ------------------------------------------------------------------ C17
\* C17: on both inference endpoints, /predict/next-month and
\* /predict/specific-date, a response for which the network was called comes
\* from a prediction that was dispatched to the thread pool: the step that
\* sends it takes the finished job out of the pool, and the handler was
\* suspended, with other requests free to run, while the job was there.
C17_InferenceStep ==
    /\ response' # response
    /\ response'.endpoint \in {"next-month", "specific-date"}
    /\ response'.invoked

C17_InferenceRunsInPool ==
    [][C17_InferenceStep => \E job \in pool : pool' = pool \ {job}]_vars

\* ------------------------------------------------------------------ C18
\* C18: a step that replaces the cached table leaves the tables of the
\* predictions in flight as they are, and the response of a forecast request
\* takes its number of rows and its forecast start date from the one table
\* the request obtained before it was dispatched, whatever the cache holds
\* when the prediction ends.
C18_SnapshotStep ==
    /\ cached_weather_data' # cached_weather_data => pool \subseteq pool'
    /\ \A job \in pool :
           job \notin pool' =>
               /\ response'.endpoint = "next-month"
               /\ response'.rows = job.historical_df.rows
               /\ response'.status = 200 =>
                      response'.start = job.historical_df.maxDate + 1

C18_SnapshotIsolation ==
    [][C18_SnapshotStep]_vars

C18_Witness ==
    /\ cache_refresh_task # None
    /\ cached_weather_data # None
    /\ cached_weather_data.rows >= 30
    /\ \E job \in pool :
           /\ job.historical_df.rows >= 30
           /\ job.historical_df.maxDate # cached_weather_data.maxDate
           /\ \E i \in 1..Len(predictor.models) :
                  /\ predictor.models[i].fitted
                  /\ GetLocationSlug(predictor.models, job.location).slug
                         = predictor.models[i].slug

\* ------------------------------------------------------------------ C10
\* C10: the orchestrator, called by /predict/specific-date with a history of
\* fewer than 30 rows, rejects it before any window is normalized and before
\* any model is called.
C10_OrchestratorRejectsShortHistory ==
    (/\ response # None
     /\ response.endpoint = "specific-date"
     /\ response.rows < 30)
        => (response.status # 200 /\ ~response.transformed /\ ~response.invoked)

\* ------------------------------------------------ farmer_auth_backend.py

\* validate_phone_number: len(phone) == 10
PhoneLength == 10
\* ACCESS_TOKEN_EXPIRE_HOURS as register and login pass it: 24 * 7
TokenHours == 168

DigitChars == {"0", "1", "2", "3", "4", "5", "6", "7", "8", "9"}
\* characters outside 0..9 for which str.isdigit() is True as well: the
\* Kannada digit nine and the superscript two, each one character
OtherDigitChars == {"U+0CEF", "U+00B2"}

\* phone numbers a caller sends: two of 10 digits, one of 9, one of 11, one
\* of 10 characters that are not all digits, and the first in Kannada digits
Nines(n) == [i \in 1..n |-> "9"]
PhoneNumbers ==
    { Nines(10), [Nines(10) EXCEPT ![10] = "0"], Nines(9), Nines(11),
      [Nines(10) EXCEPT ![1] = "x"], [i \in 1..10 |-> "U+0CEF"] }

\* "any characters, any length"
Passwords == { <<"p">>, <<"p", "q">>, <<"q">> }

\* len(phone) == 10 and phone.isdigit()
validate_phone_number(phone) ==
    /\ Len(phone) = PhoneLength
    /\ \A i \in 1..Len(phone) : phone[i] \in DigitChars \cup OtherDigitChars

\* a hash that keeps the first character of the password only
hash_password_first_char(password) ==
    <<"h", "a", "s", "h", "e", "d", "_">> \o SubSeq(password, 1, 1)
        \o <<"_", "f", "a", "r", "m", "e", "r">>

\* f"hashed_{password}_farmer"
hash_password(password) ==
    <<"h", "a", "s", "h", "e", "d", "_">> \o password
        \o <<"_", "f", "a", "r", "m", "e", "r">>

verify_password(plain_password, hashed_password) ==
    hash_password(plain_password) = hashed_password

\* the claims of the JWT; its signature and its clock are left out
create_access_token(phone_number, expires_hours) ==
    [phone_number |-> phone_number, expires_hours |-> expires_hours]

\* db.query(Farmer).filter(Farmer.phone_number == phone).first(): the index
\* of the row, 0 for None
FindFarmer(phone) ==
    IF \E i \in 1..Len(farmers) : farmers[i].phone_number = phone
    THEN CHOOSE i \in 1..Len(farmers) :
             /\ farmers[i].phone_number = phone
             /\ \A j \in 1..Len(farmers) : farmers[j].phone_number = phone => i <= j
    ELSE 0

\* what a handler raised or returned; token_type and access_token are those
\* of the TokenResponse, NoError and None when there is none
AuthResult(op, status, phone, password, token) ==
    [op |-> op, status |-> status, phone_number |-> phone, password |-> password,
     token_type |-> IF token = None THEN NoError ELSE "bearer", access_token |-> token]

\* the password last given for a phone number, for the rows there are
RecordPassword(phone, password) ==
    [p \in DOMAIN password_set \cup {phone} |->
        IF p = phone THEN password ELSE password_set[p]]

InitAuth ==
    /\ farmers = <<>>
    /\ password_set = <<>>
    /\ call = None
    /\ modelDir = <<>>
    /\ predictor = None
    /\ csv = None
    /\ cached_weather_data = None
    /\ today = 0
    /\ config = None
    /\ phase = "boot"
    /\ pool = {}
    /\ cache_refresh_task = None
    /\ response = None
    /\ predictions_df = <<>>
    /\ summary = None
    /\ alerts = None

\* POST /auth/register
Register ==
    /\ \E phone \in PhoneNumbers, password \in Passwords :
         IF ~validate_phone_number(phone) \/ FindFarmer(phone) # 0
         THEN /\ call' = AuthResult("register", 400, phone, password, None)
              /\ UNCHANGED authVars
         ELSE /\ farmers' = Append(farmers, [id |-> Len(farmers) + 1,
                                             phone_number |-> phone,
                                             password |-> hash_password(password),
                                             last_login |-> NoDate])
              /\ password_set' = RecordPassword(phone, password)
              /\ call' = AuthResult("register", 200, phone, password,
                                    create_access_token(phone, TokenHours))
    /\ UNCHANGED <<modelDir, predictor, serverVars, statsVars>>

\* POST /auth/login
Login ==
    /\ \E phone \in PhoneNumbers, password \in Passwords :
         LET farmer == FindFarmer(phone)
         IN  IF farmer = 0 \/ ~verify_password(password, farmers[farmer].password)
             THEN /\ call' = AuthResult("login", 401, phone, password, None)
                  /\ UNCHANGED authVars
             ELSE /\ farmers' = [farmers EXCEPT ![farmer].last_login = 1]
                  /\ call' = AuthResult("login", 200, phone, password,
                                        create_access_token(phone, TokenHours))
                  /\ UNCHANGED password_set
    /\ UNCHANGED <<modelDir, predictor, serverVars, statsVars>>

\* a reset that answers 200 without writing the new hash
ForgotPasswordKeepsOld ==
    /\ \E phone \in PhoneNumbers, new_password \in Passwords :
         IF ~validate_phone_number(phone)
         THEN /\ call' = AuthResult("forgot_password", 400, phone, new_password, None)
              /\ UNCHANGED authVars
         ELSE IF FindFarmer(phone) = 0
         THEN /\ call' = AuthResult("forgot_password", 404, phone, new_password, None)
              /\ UNCHANGED authVars
         ELSE /\ farmers' = farmers
              /\ password_set' = RecordPassword(phone, new_password)
              /\ call' = AuthResult("forgot_password", 200, phone, new_password, None)
    /\ UNCHANGED <<modelDir, predictor, serverVars, statsVars>>

\* POST /auth/forgot-password
ForgotPassword ==
    /\ \E phone \in PhoneNumbers, new_password \in Passwords :
         IF ~validate_phone_number(phone)
         THEN /\ call' = AuthResult("forgot_password", 400, phone, new_password, None)
              /\ UNCHANGED authVars
         ELSE IF FindFarmer(phone) = 0
         THEN /\ call' = AuthResult("forgot_password", 404, phone, new_password, None)
              /\ UNCHANGED authVars
         ELSE /\ farmers' = [farmers EXCEPT
                                ![FindFarmer(phone)].password = hash_password(new_password)]
              /\ password_set' = RecordPassword(phone, new_password)
              /\ call' = AuthResult("forgot_password", 200, phone, new_password, None)
    /\ UNCHANGED <<modelDir, predictor, serverVars, statsVars>>

NextAuth == Register \/ Login \/ ForgotPassword

SpecAuth == InitAuth /\ [][NextAuth]_vars

\* ------------------------------------------------------------------ C20
\* C20: login succeeds, with a bearer access token for the phone number,
\* exactly when the phone number is registered and the password is the one
\* last given for it (at register, when no reset followed); for an unknown
\* phone number or another password it is answered 401.
C20_LoginAfterRegister ==
    (call # None /\ call.op = "login") =>
        LET known == call.phone_number \in DOMAIN password_set
        IN  /\ call.status \in {200, 401}
            /\ call.status = 200
                 <=> (known /\ password_set[call.phone_number] = call.password)
            /\ call.status = 200 =>
                   /\ call.token_type = "bearer"
                   /\ call.access_token # None
                   /\ call.access_token.phone_number = call.phone_number
            /\ ~known => call.status = 401

C20_RegisterReturnsToken ==
    (call # None /\ call.op = "register" /\ call.status = 200) =>
        /\ validate_phone_number(call.phone_number)
        /\ call.token_type = "bearer"
        /\ password_set[call.phone_number] = call.password

C20_RegisterThenLogin ==
    C20_LoginAfterRegister /\ C20_RegisterReturnsToken

C20_Witness ==
    /\ call # None
    /\ call.op = "login"
    /\ call.status = 200
    /\ call.password = <<"p", "q">>
    /\ Len(farmers) = 2
    /\ farmers[FindFarmer(call.phone_number)].last_login = 1

C20_WitnessWrongPassword ==
    /\ call # None
    /\ call.op = "login"
    /\ call.status = 401
    /\ FindFarmer(call.phone_number) # 0
    /\ password_set[call.phone_number] = <<"p", "q">>
    /\ call.password = <<"p">>

\* ------------------------------------------------------------------ C21
\* C21: the stored hash of every registered phone number verifies exactly
\* the password most recently set for it by register or forgot_password, so
\* login succeeds only with that password; a successful forgot_password
\* with a new password different from the old one leaves a hash that the
\* new password verifies and the old one does not.
C21_StoredPasswordIsLatest ==
    \A p \in DOMAIN password_set :
        /\ FindFarmer(p) # 0
        /\ \A pw \in Passwords :
               verify_password(pw, farmers[FindFarmer(p)].password)
                   <=> pw = password_set[p]

C21_LoginOnlyWithLatest ==
    (call # None /\ call.op = "login" /\ call.status = 200) =>
        /\ call.phone_number \in DOMAIN password_set
        /\ call.password = password_set[call.phone_number]
        /\ verify_password(call.password,
                           farmers[FindFarmer(call.phone_number)].password)

C21_ResetStep ==
    (/\ call' # None
     /\ call'.op = "forgot_password"
     /\ call'.status = 200) =>
        LET p == call'.phone_number
            new == call'.password
            row == CHOOSE i \in 1..Len(farmers') : farmers'[i].phone_number = p
        IN  /\ p \in DOMAIN password_set
            /\ farmers[row].phone_number = p
            /\ verify_password(new, farmers'[row].password)
            /\ password_set[p] # new =>
                   /\ verify_password(password_set[p], farmers[row].password)
                   /\ ~verify_password(password_set[p], farmers'[row].password)
            /\ \A i \in 1..Len(farmers) : i # row => farmers'[i] = farmers[i]

C21_LoginFollowsLatestPassword ==
    /\ [](C21_StoredPasswordIsLatest /\ C21_LoginOnlyWithLatest)
    /\ [][C21_ResetStep]_vars

\* a reset has succeeded for a farmer who had logged in with another
\* password before, while a second farmer is registered
C21_Witness ==
    /\ call # None
    /\ call.op = "forgot_password"
    /\ call.status = 200
    /\ call.password = <<"q">>
    /\ Len(farmers) = 2
    /\ farmers[FindFarmer(call.phone_number)].last_login = 1
    /\ \E i \in 1..Len(farmers) :
           /\ farmers[i].phone_number # call.phone_number
           /\ farmers[i].password = hash_password(<<"p">>)

\* ------------------------------------------------------------------ C22
\* C22: on a non-empty registry _get_location_slug lowercases the input and
\* puts '_' for every blank and hyphen; it returns the normalized input when
\* that is a loaded slug, even when other loaded slugs contain it; otherwise
\* the first slug in discovery order that contains the normalized input or
\* is contained in it; otherwise the first slug in discovery order.
C22_Normalized(location) ==
    [i \in 1..Len(location) |->
        IF location[i] \in {" ", "-"} THEN "_" ELSE LowerChar(location[i])]

C22_Within(s, t) ==
    \E i, j \in 0..Len(t) : i <= j /\ [k \in 1..(j - i) |-> t[i + k]] = s

C22_Related(s, t) == C22_Within(s, t) \/ C22_Within(t, s)

C22_ResolutionOrder ==
    (call # None /\ call.op = "_get_location_slug" /\ Len(predictor.models) > 0) =>
        LET models == predictor.models
            n      == C22_Normalized(call.location)
            exact  == \E i \in 1..Len(models) : models[i].slug = n
            hits   == {i \in 1..Len(models) : C22_Related(n, models[i].slug)}
        IN  /\ ~call.out.raised
            /\ exact => call.out.slug = n
            /\ (~exact /\ hits # {}) =>
                   \E i \in hits : /\ call.out.slug = models[i].slug
                                   /\ \A j \in 1..(i - 1) : j \notin hits
            /\ (~exact /\ hits = {}) => call.out.slug = models[1].slug

\* "a" is asked for while "a_b", which contains it, was discovered first
C22_Witness ==
    /\ call # None
    /\ call.op = "_get_location_slug"
    /\ Len(predictor.models) = 2
    /\ predictor.models[1].slug = <<"a", "_", "b">>
    /\ predictor.models[2].slug = <<"a">>
    /\ call.location = <<"A">>
    /\ call.out.slug = <<"a">>

\* no exact match, the second slug in discovery order is the first related one
C22_WitnessPartial ==
    /\ call # None
    /\ call.op = "_get_location_slug"
    /\ Len(predictor.models) = 2
    /\ predictor.models[1].slug = <<"b">>
    /\ predictor.models[2].slug = <<"a", "_", "b">>
    /\ call.location = <<"a", "_">>
    /\ call.out.slug = <<"a", "_", "b">>

\* nothing related: the first slug in discovery order
C22_WitnessFallback ==
    /\ call # None
    /\ call.op = "_get_location_slug"
    /\ Len(predictor.models) = 2
    /\ predictor.models[1].slug = <<"b">>
    /\ call.location = <<"a", ",", "b">>
    /\ call.out.slug = <<"b">>

\* ------------------------------------------------------------------ C23
\* C23: for one model artifact the loaders run in the order strict load,
\* schema-tolerant load, rebuild the architecture and copy the weights; a
\* loader runs only after every earlier one of that order has failed, the
\* first success is the last attempt, every success is one of the three, and
\* the location is left out of the registry exactly when all three failed.
C23_StrategyClass(strategy) ==
    CASE strategy = "keras_no_compile"     -> 1
      [] strategy = "keras_custom_objects" -> 2
      [] strategy = "extract_weights"      -> 3
      [] strategy = "transfer_weights"     -> 3
      [] OTHER                             -> 0

C23_CascadeOf(artifact) ==
    LET t == LoadAttempts(artifact)
        failedBefore(c, k) ==
            \E j \in 1..(k - 1) : C23_StrategyClass(t[j].strategy) = c /\ ~t[j].ok
        allFailed ==
            \A c \in 1..3 :
                /\ \E k \in 1..Len(t) : C23_StrategyClass(t[k].strategy) = c
                /\ \A k \in 1..Len(t) : C23_StrategyClass(t[k].strategy) = c => ~t[k].ok
    IN  /\ \A k \in 1..Len(t) :
               /\ C23_StrategyClass(t[k].strategy) \in 1..3
               /\ \A c \in 1..(C23_StrategyClass(t[k].strategy) - 1) : failedBefore(c, k)
               /\ t[k].ok => k = Len(t)
        /\ artifact.slug \notin Slugs(predictor.models) <=> allFailed

C23_LoadCascadeInOrder ==
    predictor # None =>
        \A i \in 1..Len(modelDir) :
            modelDir[i].model # "missing" => C23_CascadeOf(modelDir[i])

\* ------------------------------------------------------------------ C24
\* C24: the predictor is only ever set while it is unset, to the registry
\* built from the model directory as it is then, so it is constructed at most
\* once and never replaced; a forecast request found without a predictor
\* constructs it before it loads data, dispatches or answers, and when the
\* construction raises it touches neither the cache nor the pool.
C24_ConstructedOnce ==
    predictor' # predictor =>
        /\ predictor = None
        /\ predictor' = MultiLocationPredictor(modelDir)

C24_ForecastAnswered ==
    /\ response' # response
    /\ response' # None
    /\ response'.endpoint \in {"next-month", "specific-date"}

C24_ConstructedFirst ==
    /\ (Cardinality(pool') > Cardinality(pool)) => predictor' # None
    /\ (C24_ForecastAnswered /\ response'.error # "predictor") => predictor' # None
    /\ (C24_ForecastAnswered /\ response'.error = "predictor") =>
           /\ predictor = None
           /\ predictor' = None
           /\ cached_weather_data' = cached_weather_data
           /\ pool' = pool

C25_CacheStaysNonEmptyStep ==
    (cached_weather_data # None /\ cached_weather_data.rows > 0) =>
        (cached_weather_data' # None /\ cached_weather_data'.rows > 0)

C25_CacheNonEmptinessPreserved == [][C25_CacheStaysNonEmptyStep]_vars

\* ------------------------------------------------------------------ C26
\* C26: for every display name of LOCATION_SLUG_MAPPING (in any letter case)
\* whose mapped slug is loaded, _get_location_slug returns the mapped slug,
\* whatever else is loaded and in whatever order it was discovered.
C26_Lowered(location) == [i \in 1..Len(location) |-> LowerChar(location[i])]

C26_DisplayNameResolvesToMappedSlug ==
    (/\ call # None
     /\ call.op = "_get_location_slug"
     /\ C26_Lowered(call.location) \in DOMAIN LOCATION_SLUG_MAPPING
     /\ LOCATION_SLUG_MAPPING[C26_Lowered(call.location)] \in Slugs(predictor.models))
        => /\ ~call.out.raised
           /\ call.out.slug = LOCATION_SLUG_MAPPING[C26_Lowered(call.location)]

\* ------------------------------------------------------------------ C27
\* C27: with T the adaptive threshold of the series, the summary counts as
\* dry exactly the days with rainfall < T, which are the days a dry streak of
\* the alerts is made of, and the days with rainfall = T, which end a
\* streak; so drought_risk fires only over 16 consecutive days below T, and
\* then dry_days >= 16.
C27_Threshold ==
    IF HasNaN(Rainfall) THEN 50 ELSE PrescribedThreshold(Greatest(Rainfall))

C27_StreakDays(t) ==
    {i \in 1..Len(Rainfall) : Rainfall[i] # NaN /\ Rainfall[i] < t}

C27_ThresholdDays == {i \in 1..Len(Rainfall) : Rainfall[i] = C27_Threshold}

C27_StreakOf16(below) ==
    \E first \in 1..(Len(Rainfall) - DroughtDays) :
        \A i \in first..(first + DroughtDays) : i \in below

C27_DryStreakDaysAreDryDays ==
    (summary # None /\ alerts # None) =>
        \A t \in {C27_Threshold} :
            \A below \in {C27_StreakDays(t)} :
                /\ summary.dry_days
                       = Cardinality(below \cup {i \in 1..Len(Rainfall) : Rainfall[i] = t})
                /\ alerts.drought_risk = 1 <=> C27_StreakOf16(below)
                /\ alerts.drought_risk = 1 => summary.dry_days >= DroughtDays + 1

\* 16 days below the threshold, then a day at the threshold, dry as well
C27_Witness ==
    /\ summary # None
    /\ alerts # None
    /\ alerts.drought_risk = 1
    /\ summary.dry_days = 30
    /\ C27_ThresholdDays = {17}

\* every day is dry for the summary, and the day at the threshold cuts the
\* month into streaks of 15 and 14 days: no drought
C27_WitnessStreakEnded ==
    /\ summary # None
    /\ alerts # None
    /\ alerts.drought_risk = 0
    /\ summary.dry_days = 30
    /\ C27_ThresholdDays = {16}

\* ------------------------------------------------------------------ C28
\* C28: there is at most one farmer record per phone number; a register
\* call for a phone number that is not exactly 10 digits 0..9, or that is
\* registered already, is answered 400 and leaves every record, the
\* existing farmer's password included, as it was.
C28_TenDigits(phone) ==
    Len(phone) = 10 /\ \A i \in 1..Len(phone) : phone[i] \in DigitChars

C28_OneRecordPerPhone ==
    \A i, j \in 1..Len(farmers) :
        farmers[i].phone_number = farmers[j].phone_number => i = j

C28_MalformedPhoneRefused ==
    (call # None /\ call.op = "register" /\ ~C28_TenDigits(call.phone_number)) =>
        call.status = 400

C28_RegisterStep ==
    (call' # None /\ call'.op = "register") =>
        /\ (\E i \in 1..Len(farmers) : farmers[i].phone_number = call'.phone_number) =>
               (call'.status = 400 /\ farmers' = farmers)
        /\ call'.status = 400 => farmers' = farmers
        /\ call'.status \in {200, 400}

C28_RegisterKeepsPhonesUnique ==
    /\ [](C28_OneRecordPerPhone /\ C28_MalformedPhoneRefused)
    /\ [][C28_RegisterStep]_vars

\* ------------------------------------------------------------------ C29
\* C29: there is a refresher only when CACHE_REFRESH_HOURS > 0 and startup
\* got past loading the predictor and the cache; a turn of it that raises or
\* loads empty data leaves the cache as it was and the refresher sleeping,
\* ready for its next turn; from shutdown on the refresher is cancelled or
\* done and the cache is never replaced again.
C29_StartedOnlyWhenConfigured ==
    cache_refresh_task # None =>
        /\ config.refresh_hours > 0
        /\ phase # "boot"
        /\ predictor # None
        /\ cached_weather_data # None

C29_RefresherGoesOn ==
    (/\ cache_refresh_task # None
     /\ cache_refresh_task.state = "sleeping"
     /\ cache_refresh_task.last \in {"error", "kept"}) => ENABLED CacheRefresh

C29_StoppedForGood ==
    phase = "stopped" =>
        (cache_refresh_task = None \/ cache_refresh_task.state \in {"cancelling", "done"})

C29_TurnStep ==
    (/\ cache_refresh_task # None
     /\ cache_refresh_task' # cache_refresh_task
     /\ cache_refresh_task.state = "sleeping"
     /\ cache_refresh_task'.state = "sleeping") =>
        /\ cache_refresh_task'.last \in {"error", "kept"} =>
               cached_weather_data' = cached_weather_data
        /\ cache_refresh_task'.last = "kept" => get_weather_data(csv).rows = 0
        /\ cache_refresh_task'.last = "updated" =>
               /\ get_weather_data(csv).rows > 0
               /\ cached_weather_data' = get_weather_data(csv)

C29_AfterShutdownStep ==
    phase = "stopped" =>
        /\ cached_weather_data' = cached_weather_data
        /\ phase' = "stopped"

C29_RefresherLifecycle ==
    /\ [](C29_StartedOnlyWhenConfigured /\ C29_RefresherGoesOn /\ C29_StoppedForGood)
    /\ [][C29_TurnStep /\ C29_AfterShutdownStep]_vars

\* the refresher kept the cache over an empty load, the server was shut
\* down, the task ended, and the CSV that came back later is not in the cache
C29_Witness ==
    /\ phase = "stopped"
    /\ cache_refresh_task # None
    /\ cache_refresh_task.state = "done"
    /\ cached_weather_data # None
    /\ cached_weather_data.rows > 0
    /\ csv # None
    /\ csv # cached_weather_data

\* a turn raised and the refresher sleeps towards its next turn
C29_WitnessError ==
    /\ phase = "serving"
    /\ cache_refresh_task # None
    /\ cache_refresh_task.state = "sleeping"
    /\ cache_refresh_task.last = "error"
    /\ csv # None
    /\ csv # cached_weather_data
    /\ ENABLED CacheRefresh

\* CACHE_REFRESH_HOURS = 0: the server runs without refresher
C29_WitnessNoRefresher ==
    /\ phase = "serving"
    /\ cached_weather_data # None
    /\ config.refresh_hours = 0
    /\ cache_refresh_task = None

\* ------------------------------------------------------------------ C30
\* C30: with ENABLE_TEST_ENDPOINTS off, POST /_internal/test/set-cache-max-date
\* is answered 404 for every request body, and the request leaves
\* cached_weather_data as it was.
C30_TestRequestAnswered ==
    /\ response' # None
    /\ response' # response
    /\ response'.endpoint = "set-cache-max-date"

C30_DisabledAnswers404 ==
    (/\ response # None
     /\ response.endpoint = "set-cache-max-date"
     /\ ~config.enable_test_endpoints) => response.status = 404

C30_DisabledKeepsCache ==
    (C30_TestRequestAnswered /\ ~config.enable_test_endpoints) =>
        cached_weather_data' = cached_weather_data

C30_DisabledEndpointIsInert ==
    /\ []C30_DisabledAnswers404
    /\ [][C30_DisabledKeepsCache]_vars

====
